---- MODULE Spec2Model ----
\* Lexical analyzer of the mini language (src/analyzer.py): scanner
\* (TOKEN_REGEX.findall), classifier (classify), symbol table (SymbolTableBST)
\* and the PIF-building loop (lexical_analyze).
\*
\* A Python string is modelled as a sequence of one-character strings, so that
\* regular-expression matching and the lexicographic comparison of keys are
\* computed character by character, as the interpreter does.
EXTENDS Integers, Sequences, FiniteSets, TLC

VARIABLES
    source,     \* lexical_analyze: the argument `source`
    matches,    \* lexical_analyze: `tokens` after line 172 (all regex matches)
    tokens,     \* lexical_analyze: `tokens` after line 173 (whitespace removed)
    pc,         \* position of the running call
    i,          \* 1-based position of the for loop of line 178 in `tokens`
    t,          \* the lexeme handed to classify (loop variable `t`)
    cls,        \* the pair (code, value) returned by classify
    st,         \* the SymbolTableBST: [root, nodes]
    PIF,        \* the list PIF
    err,        \* the lexeme carried by the raised ValueError, or None
    ret,        \* the value returned to the caller, or None
    inserted    \* the keys passed to SymbolTableBST.insert by a direct user

vars == <<source, matches, tokens, pc, i, t, cls, st, PIF, err, ret, inserted>>

\* ---------------------------------------------------------------------------
\* Bounds of the model
\* ---------------------------------------------------------------------------
MaxLen == 4         \* longest enumerated source text of an analysis
MaxScanLen == 4     \* longest enumerated source text of the scanner alone
MaxLexLen == 3      \* longest enumerated lexeme handed to classify
MaxInserts == 4     \* longest sequence of direct insert calls

\* ---------------------------------------------------------------------------
\* Characters and strings
\* ---------------------------------------------------------------------------
\* Python's None: distinct from every string (a string is a sequence of
\* one-character strings).
None == <<"None">>

\* A character is a string: the character itself for the printable ASCII
\* characters and for tab, line feed, form feed and carriage return, and the
\* name U+XXXX of its code point for a character that has no notation in a
\* string here (the vertical tab, the separators U+001C .. U+001F, the grave
\* accent and the whitespace characters beyond ASCII).
\*
\* The printable ASCII characters of code points 32 .. 95 and 97 .. 126, in
\* order.
AsciiLow ==
    <<" ", "!", "\"", "#", "$", "%", "&", "'", "(", ")", "*", "+", ",", "-", ".", "/",
      "0", "1", "2", "3", "4", "5", "6", "7", "8", "9", ":", ";", "<", "=", ">", "?",
      "@", "A", "B", "C", "D", "E", "F", "G", "H", "I", "J", "K", "L", "M", "N", "O",
      "P", "Q", "R", "S", "T", "U", "V", "W", "X", "Y", "Z", "[", "\\", "]", "^", "_">>

AsciiHigh ==
    <<"a", "b", "c", "d", "e", "f", "g", "h", "i", "j", "k", "l", "m", "n", "o",
      "p", "q", "r", "s", "t", "u", "v", "w", "x", "y", "z", "{", "|", "}", "~">>

\* The other characters of the model, each with its code point.
OtherChars ==
    << <<"\t", 9>>, <<"\n", 10>>, <<"U+000B", 11>>, <<"\f", 12>>,
       <<"\r", 13>>, <<"U+001C", 28>>, <<"U+001D", 29>>, <<"U+001E", 30>>,
       <<"U+001F", 31>>, <<"U+0060", 96>>, <<"U+0085", 133>>, <<"U+00A0", 160>>,
       <<"U+1680", 5760>>, <<"U+2000", 8192>>, <<"U+2001", 8193>>, <<"U+2002", 8194>>,
       <<"U+2003", 8195>>, <<"U+2004", 8196>>, <<"U+2005", 8197>>, <<"U+2006", 8198>>,
       <<"U+2007", 8199>>, <<"U+2008", 8200>>, <<"U+2009", 8201>>, <<"U+200A", 8202>>,
       <<"U+2028", 8232>>, <<"U+2029", 8233>>, <<"U+202F", 8239>>, <<"U+205F", 8287>>,
       <<"U+3000", 12288>> >>

Chars ==
    {AsciiLow[k] : k \in 1..Len(AsciiLow)} \cup {AsciiHigh[k] : k \in 1..Len(AsciiHigh)}
        \cup {OtherChars[k][1] : k \in 1..Len(OtherChars)}

\* The code point of a character (Python compares strings by code point).
Ord ==
    [c \in Chars |->
        IF \E k \in 1..Len(AsciiLow) : AsciiLow[k] = c
            THEN 31 + (CHOOSE k \in 1..Len(AsciiLow) : AsciiLow[k] = c)
        ELSE IF \E k \in 1..Len(AsciiHigh) : AsciiHigh[k] = c
            THEN 96 + (CHOOSE k \in 1..Len(AsciiHigh) : AsciiHigh[k] = c)
        ELSE OtherChars[CHOOSE k \in 1..Len(OtherChars) : OtherChars[k][1] = c][2]]

\* The whitespace of a Python 3 str: the 29 characters that \s matches and
\* for which str.isspace() is true (the two sets are the same).
Whitespace ==
    {" ", "\t", "\n", "U+000B", "\f", "\r", "U+001C", "U+001D",
     "U+001E", "U+001F", "U+0085", "U+00A0", "U+1680", "U+2000", "U+2001",
     "U+2002", "U+2003", "U+2004", "U+2005", "U+2006", "U+2007", "U+2008",
     "U+2009", "U+200A", "U+2028", "U+2029", "U+202F", "U+205F", "U+3000"}

\* Character classes of the regular expressions.
IsSpaceChar(c) == c \in Whitespace                                 \* \s
IsDigit(c) == Ord[c] \in 48..57                                    \* [0-9]
IsAlpha(c) == Ord[c] \in 65..90 \/ Ord[c] \in 97..122              \* [A-Za-z]
IsIdentStart(c) == IsAlpha(c) \/ c = "_"                           \* [A-Za-z_]
IsIdentChar(c) == IsAlpha(c) \/ IsDigit(c) \/ c = "_"              \* [A-Za-z0-9_]
IsAlNum(c) == IsAlpha(c) \/ IsDigit(c)                             \* [A-Za-z0-9]

\* s < t for Python strings: lexicographic by code point, a proper prefix
\* being smaller.
StrLess(s, u) ==
    \E k \in 1..(Len(u)) :
        /\ \A j \in 1..(k - 1) : j <= Len(s) /\ s[j] = u[j]
        /\ \/ k = Len(s) + 1
           \/ k <= Len(s) /\ Ord[s[k]] < Ord[u[k]]

\* str.isspace(): non-empty and made of whitespace only.
IsSpaceStr(s) == Len(s) > 0 /\ \A k \in 1..Len(s) : IsSpaceChar(s[k])

\* ---------------------------------------------------------------------------
\* 1. Token codes
\* ---------------------------------------------------------------------------
\* The keys of TOKEN_CODES in the order of the dictionary; the code of a key
\* is its position, counted from 0.
TokenKeys ==
    << <<"i", "d", "e", "n", "t", "i", "f", "i", "e", "r">>,
       <<"c", "o", "n", "s", "t", "a", "n", "t">>,
       <<"i", "n", "t">>,
       <<"c", "h", "a", "r">>,
       <<"s", "t", "r", "i", "n", "g">>,
       <<"b", "o", "o", "l">>,
       <<"c", "o", "n", "s", "t">>,
       <<"f", "o", "r">>,
       <<"w", "h", "i", "l", "e">>,
       <<"d", "o">>,
       <<"i", "f">>,
       <<"e", "l", "s", "e">>,
       <<"c", "i", "n">>,
       <<"c", "o", "u", "t">>,
       <<"r", "e", "t", "u", "r", "n">>,
       <<"m", "a", "i", "n">>,
       <<";">>,
       <<",">>,
       <<".">>,
       <<"+">>,
       <<"*">>,
       <<"(">>,
       <<")">>,
       <<"[">>,
       <<"]">>,
       <<"{">>,
       <<"}">>,
       <<"-">>,
       <<"<">>,
       <<">">>,
       <<"=">>,
       <<"=", "=">>,
       <<":">>,
       <<"<", "=">>,
       <<">", "=">>,
       <<"!", "=">>,
       <<"&", "&">>,
       <<"|", "|">> >>

TOKEN_CODES ==
    [key \in {TokenKeys[k] : k \in 1..Len(TokenKeys)} |->
        (CHOOSE k \in 1..Len(TokenKeys) : TokenKeys[k] = key) - 1]

RESERVED ==
    {key \in DOMAIN TOKEN_CODES :
        key \notin {<<"i", "d", "e", "n", "t", "i", "f", "i", "e", "r">>,
                    <<"c", "o", "n", "s", "t", "a", "n", "t">>}}

\* ---------------------------------------------------------------------------
\* 2. The regular expression of the tokens
\* ---------------------------------------------------------------------------
\* The number of consecutive characters of s, from position p on, that
\* satisfy the class (a greedy repetition).
RECURSIVE RunSpace(_, _)
RunSpace(s, p) ==
    IF p <= Len(s) /\ IsSpaceChar(s[p]) THEN 1 + RunSpace(s, p + 1) ELSE 0

RECURSIVE RunIdent(_, _)
RunIdent(s, p) ==
    IF p <= Len(s) /\ IsIdentChar(s[p]) THEN 1 + RunIdent(s, p + 1) ELSE 0

RECURSIVE RunDigit(_, _)
RunDigit(s, p) ==
    IF p <= Len(s) /\ IsDigit(s[p]) THEN 1 + RunDigit(s, p + 1) ELSE 0

RECURSIVE RunAlNum(_, _)
RunAlNum(s, p) ==
    IF p <= Len(s) /\ IsAlNum(s[p]) THEN 1 + RunAlNum(s, p + 1) ELSE 0

\* The two-character alternatives ==|!=|<=|>=|&&|\|\| of TOKEN_REGEX.
TwoCharOps ==
    {<<"=", "=">>, <<"!", "=">>, <<"<", "=">>, <<">", "=">>, <<"&", "&">>, <<"|", "|">>}

\* A variant in which the single-character fallback is tried before the
\* two-character operators.
MatchAtFallbackFirst(s, p) ==
    IF IsSpaceChar(s[p]) THEN RunSpace(s, p)
    ELSE IF IsIdentStart(s[p]) THEN RunIdent(s, p)
    ELSE IF IsDigit(s[p]) THEN RunDigit(s, p)
    ELSE 1

\* A variant whose operator alternatives also hold the shift operator <<.
MatchAtWithShift(s, p) ==
    IF IsSpaceChar(s[p]) THEN RunSpace(s, p)
    ELSE IF p + 1 <= Len(s)
            /\ <<s[p], s[p + 1]>> \in TwoCharOps \cup {<<"<", "<">>} THEN 2
    ELSE IF IsIdentStart(s[p]) THEN RunIdent(s, p)
    ELSE IF IsDigit(s[p]) THEN RunDigit(s, p)
    ELSE IF s[p] = "'" /\ p + 2 <= Len(s) /\ IsAlNum(s[p + 1]) /\ s[p + 2] = "'" THEN 3
    ELSE IF s[p] = "\"" /\ p + 1 + RunAlNum(s, p + 1) <= Len(s)
            /\ s[p + 1 + RunAlNum(s, p + 1)] = "\"" THEN RunAlNum(s, p + 1) + 2
    ELSE 1

\* The length of the match of TOKEN_REGEX at position p of s: the first
\* alternative, in the order of the pattern, that matches there; 0 when none
\* does.
MatchAt(s, p) ==
    IF IsSpaceChar(s[p]) THEN RunSpace(s, p)
    ELSE IF p + 1 <= Len(s) /\ <<s[p], s[p + 1]>> \in TwoCharOps THEN 2
    ELSE IF IsIdentStart(s[p]) THEN RunIdent(s, p)
    ELSE IF IsDigit(s[p]) THEN RunDigit(s, p)
    ELSE IF s[p] = "'" /\ p + 2 <= Len(s) /\ IsAlNum(s[p + 1]) /\ s[p + 2] = "'" THEN 3
    ELSE IF s[p] = "\"" /\ p + 1 + RunAlNum(s, p + 1) <= Len(s)
            /\ s[p + 1 + RunAlNum(s, p + 1)] = "\"" THEN RunAlNum(s, p + 1) + 2
    ELSE IF s[p] # "\n" THEN 1
    ELSE IF s[p] = "\n" THEN 1
    ELSE 0

\* TOKEN_REGEX.findall(s) from position p on: the matches, left to right and
\* not overlapping; a position without a match is skipped.
RECURSIVE FindAllFrom(_, _)
FindAllFrom(s, p) ==
    IF p > Len(s) THEN <<>>
    ELSE LET n == MatchAt(s, p) IN
         IF n = 0 THEN FindAllFrom(s, p + 1)
         ELSE <<SubSeq(s, p, p + n - 1)>> \o FindAllFrom(s, p + n)

FindAll(s) == FindAllFrom(s, 1)

\* [t for t in tokens if not t.isspace()]
DropSpaces(ms) == SelectSeq(ms, LAMBDA m : ~IsSpaceStr(m))

\* ---------------------------------------------------------------------------
\* 3. Recognition functions
\* ---------------------------------------------------------------------------
\* re.fullmatch(r"[A-Za-z_][A-Za-z0-9_]*", token)
FullMatchIdent(token) ==
    /\ Len(token) >= 1
    /\ IsIdentStart(token[1])
    /\ \A k \in 2..Len(token) : IsIdentChar(token[k])

is_identifier(token) == FullMatchIdent(token) /\ token \notin RESERVED

is_int_const(token) ==
    Len(token) >= 1 /\ \A k \in 1..Len(token) : IsDigit(token[k])

is_char_const(token) ==
    Len(token) = 3 /\ token[1] = "'" /\ IsAlNum(token[2]) /\ token[3] = "'"

is_string_const(token) ==
    /\ Len(token) >= 2
    /\ token[1] = "\""
    /\ token[Len(token)] = "\""
    /\ \A k \in 2..(Len(token) - 1) : IsAlNum(token[k])

\* ---------------------------------------------------------------------------
\* 4. Classification
\* ---------------------------------------------------------------------------
\* A variant that tries the identifier pattern before the reserved words.
classifyIdentFirst(token) ==
    IF FullMatchIdent(token) THEN <<0, token>>
    ELSE IF token \in RESERVED THEN <<TOKEN_CODES[token], None>>
    ELSE IF is_int_const(token) \/ is_char_const(token) \/ is_string_const(token)
        THEN <<1, token>>
    ELSE <<-1, token>>

classify(token) ==
    IF token \in RESERVED THEN <<TOKEN_CODES[token], None>>
    ELSE IF is_identifier(token) THEN <<TOKEN_CODES[<<"i", "d", "e", "n", "t", "i", "f", "i", "e", "r">>], token>>
    ELSE IF is_int_const(token) \/ is_char_const(token) \/ is_string_const(token)
        THEN <<TOKEN_CODES[<<"c", "o", "n", "s", "t", "a", "n", "t">>], token>>
    ELSE IF token \in DOMAIN TOKEN_CODES THEN <<TOKEN_CODES[token], None>>
    ELSE <<-1, token>>

\* ---------------------------------------------------------------------------
\* 5. The symbol table: a binary search tree
\* ---------------------------------------------------------------------------
\* A tree is [root, nodes]: nodes is the sequence of the STNode objects in the
\* order of their creation, a node reference is a position in it and 0 is
\* the None reference.
STNode(key) == [key |-> key, left |-> 0, right |-> 0]

SymbolTableBST == [root |-> 0, nodes |-> <<>>]

\* The while loop of insert, standing at node cur. The result is the tree
\* after the call and the node returned.
RECURSIVE InsertLoop(_, _, _)

\* A variant without the test for an equal key: an equal key goes to the right.
InsertLoopNoEqual(s, cur, key) ==
    LET n == s.nodes[cur]
        new == Len(s.nodes) + 1
    IN  IF StrLess(key, n.key)
        THEN IF n.left = 0
             THEN [st |-> [root |-> s.root,
                           nodes |-> Append([s.nodes EXCEPT ![cur].left = new], STNode(key))],
                   node |-> new]
             ELSE InsertLoop(s, n.left, key)
        ELSE IF n.right = 0
             THEN [st |-> [root |-> s.root,
                           nodes |-> Append([s.nodes EXCEPT ![cur].right = new], STNode(key))],
                   node |-> new]
             ELSE InsertLoop(s, n.right, key)

InsertLoop(s, cur, key) ==
    LET n == s.nodes[cur]
        new == Len(s.nodes) + 1
    IN  IF key = n.key THEN [st |-> s, node |-> cur]
        ELSE IF StrLess(key, n.key)
        THEN IF n.left = 0
             THEN [st |-> [root |-> s.root,
                           nodes |-> Append([s.nodes EXCEPT ![cur].left = new], STNode(key))],
                   node |-> new]
             ELSE InsertLoop(s, n.left, key)
        ELSE IF n.right = 0
             THEN [st |-> [root |-> s.root,
                           nodes |-> Append([s.nodes EXCEPT ![cur].right = new], STNode(key))],
                   node |-> new]
             ELSE InsertLoop(s, n.right, key)

\* SymbolTableBST.insert
insert(s, key) ==
    IF s.root = 0
    THEN [st |-> [root |-> 1, nodes |-> <<STNode(key)>>], node |-> 1]
    ELSE InsertLoop(s, s.root, key)

\* SymbolTableBST.find, from node cur on: the node holding key, or 0.
RECURSIVE FindFrom(_, _, _)
FindFrom(s, cur, key) ==
    IF cur = 0 THEN 0
    ELSE IF key = s.nodes[cur].key THEN cur
    ELSE IF StrLess(key, s.nodes[cur].key) THEN FindFrom(s, s.nodes[cur].left, key)
    ELSE FindFrom(s, s.nodes[cur].right, key)

find(s, key) == FindFrom(s, s.root, key)

\* SymbolTableBST.__contains__
contains(s, key) == find(s, key) # 0

\* The nested function inorder of inorder_list.
RECURSIVE inorder(_, _)
inorder(s, node) ==
    IF node = 0 THEN <<>>
    ELSE inorder(s, s.nodes[node].left) \o <<s.nodes[node].key>>
            \o inorder(s, s.nodes[node].right)

inorder_list(s) == inorder(s, s.root)

\* list.index(value), counted from 0: the first position holding value.
index(keys, value) ==
    (CHOOSE k \in 1..Len(keys) :
        keys[k] = value /\ \A j \in 1..(k - 1) : keys[j] # value) - 1

\* ---------------------------------------------------------------------------
\* Inputs
\* ---------------------------------------------------------------------------
\* All strings over the alphabet of length at most n.
SeqsUpTo(alphabet, n) == UNION {[1..k -> alphabet] : k \in 0..n}

\* The worked examples of the specification.
ScenarioA ==    \* int a ; a = 5 ;
    <<"i", "n", "t", " ", "a", " ", ";", " ", "a", " ", "=", " ", "5", " ", ";">>
ScenarioB ==    \* if ( a == b ) { cout << a ; }
    <<"i", "f", " ", "(", " ", "a", " ", "=", "=", " ", "b", " ", ")", " ", "{", " ",
      "c", "o", "u", "t", " ", "<", "<", " ", "a", " ", ";", " ", "}">>
ScenarioC ==    \* return ;
    <<"r", "e", "t", "u", "r", "n", " ", ";">>
Banana == <<"b", "a", "n", "a", "n", "a">>
Apple == <<"a", "p", "p", "l", "e">>

\* Source texts of an analysis: an identifier letter, the letters of the
\* reserved word if, a digit, a blank, the operators = and <, the double
\* quote and a character outside the language.
Alphabet == {"a", "i", "f", "5", " ", "=", "<", "\"", "$"}
\* Texts with whitespace other than the blank: a form feed, a no-break space
\* followed by a line separator, a vertical tab before a character outside
\* the language.
WhitespaceSources ==
    { <<"a", "\f", "b">>,
      <<"a", "U+00A0", "U+2028", "5">>,
      <<"i", "f", "U+000B", "U+0060", "\t", "a">> }
Sources ==
    SeqsUpTo(Alphabet, MaxLen) \cup {ScenarioA, ScenarioB, ScenarioC} \cup WhitespaceSources

\* Source texts of the scanner alone.
ScanAlphabet == {"a", "5", "_", " ", "\n", "\f", "=", "<", "'", "\""}
\* Every whitespace character between two letters.
WhitespaceScanSources == {<<"a", c, c, "b">> : c \in Whitespace}
ScanSources ==
    SeqsUpTo(ScanAlphabet, MaxScanLen) \cup {ScenarioA, ScenarioB, ScenarioC}
        \cup WhitespaceSources \cup WhitespaceScanSources

\* Lexemes handed to classify: every short string over the alphabet and every
\* key of TOKEN_CODES.
LexAlphabet == {"i", "f", "a", "5", "_", "'", "\"", "=", "$"}
Lexemes ==
    SeqsUpTo(LexAlphabet, MaxLexLen) \cup DOMAIN TOKEN_CODES
        \cup {<<c>> : c \in Chars}

\* Keys inserted into a symbol table directly.
Keys == {Banana, Apple, <<"a">>, <<"a", "b">>, <<"5">>}

\* ---------------------------------------------------------------------------
\* 6. The lexical analyzer
\* ---------------------------------------------------------------------------
Init ==
    /\ source \in Sources
    /\ matches = <<>>
    /\ tokens = <<>>
    /\ pc = "start"
    /\ i = 0
    /\ t = None
    /\ cls = None
    /\ st = SymbolTableBST
    /\ PIF = <<>>
    /\ err = None
    /\ ret = None
    /\ inserted = <<>>

\* Lines 172-176: the tokens are extracted, the whitespace is dropped, the
\* symbol table and the PIF are created.
Tokenize ==
    /\ pc = "start"
    /\ matches' = FindAll(source)
    /\ tokens' = DropSpaces(FindAll(source))
    /\ st' = SymbolTableBST
    /\ PIF' = <<>>
    /\ i' = 1
    /\ pc' = "loop"
    /\ UNCHANGED <<source, t, cls, err, ret, inserted>>

\* A variant that notes the invalid token and goes on with the next one.
RaiseInvalidGoesOn ==
    /\ pc = "loop"
    /\ i <= Len(tokens)
    /\ classify(tokens[i])[1] = -1
    /\ t' = tokens[i]
    /\ cls' = classify(tokens[i])
    /\ i' = i + 1
    /\ UNCHANGED <<source, matches, tokens, pc, st, PIF, err, ret, inserted>>

\* Lines 179-182: the token is invalid, ValueError leaves the function.
RaiseInvalid ==
    /\ pc = "loop"
    /\ i <= Len(tokens)
    /\ classify(tokens[i])[1] = -1
    /\ t' = tokens[i]
    /\ cls' = classify(tokens[i])
    /\ err' = tokens[i]
    /\ pc' = "raised"
    /\ UNCHANGED <<source, matches, tokens, i, st, PIF, ret, inserted>>

\* A variant whose index is the order of creation of the node instead of the
\* position in the in-order list.
AppendSymbolCreationOrder ==
    /\ pc = "loop"
    /\ i <= Len(tokens)
    /\ LET code == classify(tokens[i])[1]
           value == classify(tokens[i])[2]
           st1 == IF ~contains(st, value) THEN insert(st, value).st ELSE st
       IN  /\ code # -1
           /\ value # None
           /\ st' = st1
           /\ PIF' = Append(PIF, <<code, find(st1, value) - 1>>)
    /\ t' = tokens[i]
    /\ cls' = classify(tokens[i])
    /\ i' = i + 1
    /\ UNCHANGED <<source, matches, tokens, pc, err, ret, inserted>>

\* Lines 179-190: an identifier or a constant is inserted when absent and its
\* position in the in-order list of that moment is appended to the PIF.
AppendSymbol ==
    /\ pc = "loop"
    /\ i <= Len(tokens)
    /\ LET code == classify(tokens[i])[1]
           value == classify(tokens[i])[2]
           st1 == IF ~contains(st, value) THEN insert(st, value).st ELSE st
           inorder_keys == inorder_list(st1)
       IN  /\ code # -1
           /\ value # None
           /\ st' = st1
           /\ PIF' = Append(PIF, <<code, index(inorder_keys, value)>>)
    /\ t' = tokens[i]
    /\ cls' = classify(tokens[i])
    /\ i' = i + 1
    /\ UNCHANGED <<source, matches, tokens, pc, err, ret, inserted>>

\* A variant that gives a reserved word or a symbol the index 0.
AppendReservedIndexZero ==
    /\ pc = "loop"
    /\ i <= Len(tokens)
    /\ classify(tokens[i])[1] # -1
    /\ classify(tokens[i])[2] = None
    /\ PIF' = Append(PIF, <<classify(tokens[i])[1], 0>>)
    /\ t' = tokens[i]
    /\ cls' = classify(tokens[i])
    /\ i' = i + 1
    /\ UNCHANGED <<source, matches, tokens, pc, st, err, ret, inserted>>

\* A variant that appends nothing for a reserved word or a symbol.
AppendReservedNoEntry ==
    /\ pc = "loop"
    /\ i <= Len(tokens)
    /\ classify(tokens[i])[1] # -1
    /\ classify(tokens[i])[2] = None
    /\ t' = tokens[i]
    /\ cls' = classify(tokens[i])
    /\ i' = i + 1
    /\ UNCHANGED <<source, matches, tokens, pc, st, PIF, err, ret, inserted>>

\* Lines 179-184, 191-192: a reserved word or a symbol has no index.
AppendReserved ==
    /\ pc = "loop"
    /\ i <= Len(tokens)
    /\ classify(tokens[i])[1] # -1
    /\ classify(tokens[i])[2] = None
    /\ PIF' = Append(PIF, <<classify(tokens[i])[1], -1>>)
    /\ t' = tokens[i]
    /\ cls' = classify(tokens[i])
    /\ i' = i + 1
    /\ UNCHANGED <<source, matches, tokens, pc, st, err, ret, inserted>>

\* Line 194: the loop is over, the table and the PIF are returned.
Return ==
    /\ pc = "loop"
    /\ i > Len(tokens)
    /\ ret' = <<st, PIF>>
    /\ pc' = "done"
    /\ UNCHANGED <<source, matches, tokens, i, t, cls, st, PIF, err, inserted>>

Next == Tokenize \/ RaiseInvalid \/ AppendSymbol \/ AppendReserved \/ Return

Spec == Init /\ [][Next]_vars

\* ---------------------------------------------------------------------------
\* The scanner alone: lines 172-173 on every short text
\* ---------------------------------------------------------------------------
InitScan ==
    /\ source \in ScanSources
    /\ matches = <<>>
    /\ tokens = <<>>
    /\ pc = "start"
    /\ i = 0
    /\ t = None
    /\ cls = None
    /\ st = SymbolTableBST
    /\ PIF = <<>>
    /\ err = None
    /\ ret = None
    /\ inserted = <<>>

NextScan == Tokenize

SpecScan == InitScan /\ [][NextScan]_vars

\* ---------------------------------------------------------------------------
\* classify alone, on every short lexeme
\* ---------------------------------------------------------------------------
InitClassify ==
    /\ source = <<>>
    /\ matches = <<>>
    /\ tokens = <<>>
    /\ pc = "classify"
    /\ i = 0
    /\ t \in Lexemes
    /\ cls = None
    /\ st = SymbolTableBST
    /\ PIF = <<>>
    /\ err = None
    /\ ret = None
    /\ inserted = <<>>

ClassifyCall ==
    /\ pc = "classify"
    /\ cls' = classify(t)
    /\ pc' = "classified"
    /\ UNCHANGED <<source, matches, tokens, i, t, st, PIF, err, ret, inserted>>

NextClassify == ClassifyCall

SpecClassify == InitClassify /\ [][NextClassify]_vars

\* ---------------------------------------------------------------------------
\* The symbol table alone: any sequence of insert calls
\* ---------------------------------------------------------------------------
InitBST ==
    /\ source = <<>>
    /\ matches = <<>>
    /\ tokens = <<>>
    /\ pc = "bst"
    /\ i = 0
    /\ t = None
    /\ cls = None
    /\ st = SymbolTableBST
    /\ PIF = <<>>
    /\ err = None
    /\ ret = None
    /\ inserted = <<>>

InsertCall ==
    /\ pc = "bst"
    /\ Len(inserted) < MaxInserts
    /\ \E key \in Keys :
        /\ st' = insert(st, key).st
        /\ inserted' = Append(inserted, key)
    /\ UNCHANGED <<source, matches, tokens, pc, i, t, cls, PIF, err, ret>>

NextBST == InsertCall

SpecBST == InitBST /\ [][NextBST]_vars

\* ---------------------------------------------------------------------------
\* Vocabulary of the properties
\* ---------------------------------------------------------------------------
Str_if == <<"i", "f">>
Str_int == <<"i", "n", "t">>
Str_main == <<"m", "a", "i", "n">>
Str_lt == <<"<">>

\* The lexeme follows one of the patterns of an identifier or of a constant
\* and is not reserved.
IsSymbolLexeme(x) ==
    /\ x \notin RESERVED
    /\ FullMatchIdent(x) \/ is_int_const(x) \/ is_char_const(x) \/ is_string_const(x)

IsSymbolKind(k) == k \in {0, 1}

\* The smallest element of a non-empty set of integers.
Least(S) == CHOOSE x \in S : \A y \in S : x <= y

\* The concatenation of the first m strings of a sequence of strings.
RECURSIVE ConcatFirst(_, _)
ConcatFirst(ms, m) == IF m = 0 THEN <<>> ELSE ConcatFirst(ms, m - 1) \o ms[m]

\* The position in the source of the first character of match m.
MatchStart(ms, m) == Len(ConcatFirst(ms, m - 1)) + 1

\* The positions, in the sequence of all matches, of the lexemes that are not
\* whitespace.
NonSpaceMatches(ms) == {m \in 1..Len(ms) : ~IsSpaceStr(ms[m])}

\* The position in tokens of the non-whitespace match m.
TokenOfMatch(ms, m) == Cardinality({n \in NonSpaceMatches(ms) : n <= m})

\* The keys held by the nodes of a tree.
KeysOf(s) == {s.nodes[n].key : n \in 1..Len(s.nodes)}

\* The keys of the subtree of a node reference.
RECURSIVE SubtreeKeys(_, _)
SubtreeKeys(s, node) ==
    IF node = 0 THEN {}
    ELSE SubtreeKeys(s, s.nodes[node].left) \cup {s.nodes[node].key}
            \cup SubtreeKeys(s, s.nodes[node].right)

Range(seq) == {seq[k] : k \in 1..Len(seq)}

\* The source holds the two-character sequence << at position p.
ShiftAt(p) == p + 1 <= Len(source) /\ source[p] = "<" /\ source[p + 1] = "<"
HasShift == \E p \in 1..Len(source) : ShiftAt(p)

\* ---------------------------------------------------------------------------
\* C1
\* ---------------------------------------------------------------------------
\* C1: after a successful analysis every identifier or constant entry of the
\* PIF holds an index inside the final in-order symbol table, and the key at
\* that index is the lexeme of the token; `int a ; a = 5 ;` gives the table
\* ["5", "a"] and the PIF [(2,-1),(0,1),(16,-1),(0,1),(30,-1),(1,0),(16,-1)].
C1_IndexIsFinalRank ==
    pc = "done" =>
        /\ \A k \in 1..Len(PIF) :
            IsSymbolKind(PIF[k][1]) =>
                /\ 0 <= PIF[k][2]
                /\ PIF[k][2] < Len(inorder_list(st))
                /\ inorder_list(st)[PIF[k][2] + 1] = tokens[k]
        /\ source = ScenarioA =>
            /\ inorder_list(st) = << <<"5">>, <<"a">> >>
            /\ PIF = << <<2, -1>>, <<0, 1>>, <<16, -1>>, <<0, 1>>, <<30, -1>>,
                        <<1, 0>>, <<16, -1>> >>

\* ---------------------------------------------------------------------------
\* C2
\* ---------------------------------------------------------------------------
\* The keys of the direct insert calls in ascending order of their code points.
SortedKeys == << <<"5">>, <<"a">>, <<"a", "b">>, Apple, Banana >>

\* C2: after any sequence of insert calls the in-order list is the set of the
\* inserted keys in strictly ascending lexicographic order, without
\* duplicates, whatever the order of the calls; every node has only smaller
\* keys in its left subtree and only greater keys in its right subtree; and
\* after inserting "banana" then "apple", apple has rank 0 and banana rank 1.
C2_InorderSorted ==
    LET keys == inorder_list(st) IN
    /\ \A j \in 1..(Len(keys) - 1) : StrLess(keys[j], keys[j + 1])
    /\ Range(keys) = Range(inserted)
    /\ Len(keys) = Cardinality(Range(inserted))
    /\ Len(st.nodes) = Cardinality(Range(inserted))
    /\ keys = SelectSeq(SortedKeys, LAMBDA x : x \in Range(inserted))
    /\ \A n \in 1..Len(st.nodes) :
        /\ \A x \in SubtreeKeys(st, st.nodes[n].left) : StrLess(x, st.nodes[n].key)
        /\ \A x \in SubtreeKeys(st, st.nodes[n].right) : StrLess(st.nodes[n].key, x)
    /\ inserted = <<Banana, Apple>> =>
        index(keys, Apple) = 0 /\ index(keys, Banana) = 1

\* Four calls in descending then repeated order: banana, apple, "5", banana.
C2_Witness ==
    /\ pc = "bst"
    /\ inserted = <<Banana, Apple, <<"5">>, Banana>>
    /\ Len(st.nodes) = 3

\* ---------------------------------------------------------------------------
\* C3
\* ---------------------------------------------------------------------------
\* C3: after a successful analysis a lexeme that occurs several times has
\* exactly one node in the symbol table and all the PIF entries of its
\* occurrences hold the same index.
C3_SameIndexForSameLexeme ==
    pc = "done" =>
        \A j \in 1..Len(PIF) :
            IsSymbolKind(PIF[j][1]) =>
                /\ Cardinality({n \in 1..Len(st.nodes) : st.nodes[n].key = tokens[j]}) = 1
                /\ \A k \in 1..Len(PIF) :
                    tokens[k] = tokens[j] => PIF[k][2] = PIF[j][2]

\* ---------------------------------------------------------------------------
\* C4
\* ---------------------------------------------------------------------------
\* The positions of the tokens that classify as invalid.
InvalidPositions == {k \in 1..Len(tokens) : classify(tokens[k])[1] = -1}

C4_Inv ==
    /\ (pc \in {"loop", "raised", "done"} /\ InvalidPositions # {}) =>
        /\ i <= Least(InvalidPositions)
        /\ Len(PIF) < Least(InvalidPositions)
        /\ pc # "done"
        /\ ret = None
        /\ pc = "raised" =>
            /\ err = tokens[Least(InvalidPositions)]
            /\ i = Least(InvalidPositions)
            /\ Len(PIF) = Least(InvalidPositions) - 1
    /\ pc = "raised" => InvalidPositions # {} /\ ret = None
    /\ ret # None => InvalidPositions = {}
    /\ pc # "raised" => err = None

\* C4: when a lexeme of the source classifies as invalid the analysis raises
\* with the first such lexeme, in source order; nothing is processed at or
\* after it, no step follows the raise, and neither a symbol table nor a PIF
\* is returned.
C4_FailFast == [](C4_Inv) /\ [][pc # "raised"]_vars

\* An invalid lexeme after valid ones and before others: the tokens before it
\* are in the PIF, the tokens after it are not.
C4_Witness ==
    /\ pc = "raised"
    /\ Len(PIF) > 0
    /\ i < Len(tokens)
    /\ \E k \in (i + 1)..Len(tokens) : classify(tokens[k])[1] = -1

\* ---------------------------------------------------------------------------
\* C5
\* ---------------------------------------------------------------------------
\* C5 as stated: the analysis of a source holding << never returns, and when
\* nothing else in the source is invalid it raises on the lexeme <.
C5_ShiftRejected ==
    HasShift =>
        /\ pc # "done"
        /\ ret = None
        /\ (pc = "raised" /\ \A k \in 1..Len(tokens) :
                tokens[k] # Str_lt => classify(tokens[k])[1] # -1) =>
            err = Str_lt

\* C5 as amended: the scanner does not combine <<; the first < of every <<
\* is a lexeme of its own, < is the operator of code 28 and gives the PIF
\* entry (28,-1); the analysis never raises on the lexeme <; and
\* `if ( a == b ) { cout << a ; }` succeeds with the table ["a", "b"] and a
\* full PIF.
C5_ShiftAccepted ==
    /\ err # Str_lt
    /\ pc \in {"loop", "raised", "done"} =>
        /\ \A k \in 1..Len(tokens) : tokens[k] # <<"<", "<">>
        /\ \A p \in 1..Len(source) :
            ShiftAt(p) =>
                \E m \in 1..Len(matches) :
                    /\ MatchStart(matches, m) = p
                    /\ matches[m] = Str_lt
                    /\ TokenOfMatch(matches, m) <= Len(PIF) =>
                        PIF[TokenOfMatch(matches, m)] = <<28, -1>>
    /\ (source = ScenarioB /\ pc \in {"raised", "done"}) =>
        /\ pc = "done"
        /\ inorder_list(st) = << <<"a">>, <<"b">> >>
        /\ PIF = << <<10, -1>>, <<21, -1>>, <<0, 0>>, <<31, -1>>, <<0, 1>>, <<22, -1>>,
                    <<25, -1>>, <<13, -1>>, <<28, -1>>, <<28, -1>>, <<0, 0>>,
                    <<16, -1>>, <<26, -1>> >>
        /\ ret = <<st, PIF>>

C5_Witness == source = ScenarioB /\ pc = "done"

\* ---------------------------------------------------------------------------
\* C6
\* ---------------------------------------------------------------------------
\* C6: a reserved lexeme is never a key of the symbol table and its PIF entry
\* holds its code and the index -1; after a successful analysis the keys of
\* the table are exactly the identifier and constant lexemes of the source;
\* `return ;` gives an empty table and the PIF [(14,-1),(16,-1)].
C6_ReservedNeverStored ==
    /\ KeysOf(st) \cap RESERVED = {}
    /\ \A k \in 1..Len(PIF) :
        tokens[k] \in RESERVED => PIF[k] = <<TOKEN_CODES[tokens[k]], -1>>
    /\ pc = "done" =>
        /\ KeysOf(st) = {x \in Range(tokens) : IsSymbolLexeme(x)}
        /\ Range(inorder_list(st)) = KeysOf(st)
        /\ source = ScenarioC =>
            /\ st = SymbolTableBST
            /\ PIF = << <<14, -1>>, <<16, -1>> >>

C6_Witness == source = ScenarioC /\ pc = "done" /\ Len(PIF) = 2

\* ---------------------------------------------------------------------------
\* C7
\* ---------------------------------------------------------------------------
\* The kind of a valid lexeme.
KindOf(x) ==
    IF x \in RESERVED THEN TOKEN_CODES[x] ELSE IF FullMatchIdent(x) THEN 0 ELSE 1

\* C7: after a successful analysis the PIF has one entry for each
\* non-whitespace lexeme of the scanner, in the order of the source: its
\* length is their number and its k-th kind is the kind of the k-th of them.
C7_OneEntryPerLexeme ==
    pc = "done" =>
        /\ Len(PIF) = Cardinality(NonSpaceMatches(matches))
        /\ \A m \in NonSpaceMatches(matches) :
            PIF[TokenOfMatch(matches, m)][1] = KindOf(matches[m])

\* A source with whitespace, a reserved lexeme and a symbol.
C7_Witness ==
    /\ pc = "done"
    /\ Len(matches) > Len(PIF)
    /\ \E j, k \in 1..Len(PIF) : PIF[j][2] = -1 /\ PIF[k][2] # -1

\* ---------------------------------------------------------------------------
\* C8
\* ---------------------------------------------------------------------------
\* C8: classify decides in this order: a reserved word, operator or
\* punctuation gives its code and no value, also when it has the shape of an
\* identifier (int, main); else an identifier gives (0, lexeme); else an
\* integer, character or string literal gives (1, lexeme); anything else is
\* invalid.
C8_FirstMatchWins ==
    pc = "classified" =>
        /\ t \in RESERVED => cls = <<TOKEN_CODES[t], None>>
        /\ (t \notin RESERVED /\ FullMatchIdent(t)) => cls = <<0, t>>
        /\ (t \notin RESERVED /\ ~FullMatchIdent(t)
                /\ (is_int_const(t) \/ is_char_const(t) \/ is_string_const(t))) =>
            cls = <<1, t>>
        /\ (t \notin RESERVED /\ ~FullMatchIdent(t)
                /\ ~is_int_const(t) /\ ~is_char_const(t) /\ ~is_string_const(t)) =>
            cls = <<-1, t>>
        /\ t = Str_int => cls = <<2, None>>
        /\ t = Str_main => cls = <<15, None>>
        /\ t = Str_if => cls = <<10, None>>
        /\ t = <<"i", "f", "a">> => cls = <<0, t>>
        /\ t = <<"'", "a", "'">> => cls = <<1, t>>
        /\ t = <<"5", "a">> => cls = <<-1, t>>

C8_Witness == pc = "classified" /\ t = Str_int /\ cls = <<2, None>>

\* ---------------------------------------------------------------------------
\* C9
\* ---------------------------------------------------------------------------
\* C9: the matches cover the source from left to right; where a match starts
\* with a two-character operator the match is that operator, and no two
\* neighbouring one-character matches spell one; an identifier or an integer
\* match is not followed by a character that would extend it; a match of no
\* other pattern is one character; a lexeme is never empty and holds no
\* whitespace; the lexemes are the matches that are not whitespace.
C9_Scanner ==
    pc = "loop" =>
        /\ ConcatFirst(matches, Len(matches)) = source
        /\ \A m \in 1..Len(matches) :
            LET p == MatchStart(matches, m)
                q == p + Len(matches[m])
            IN  /\ Len(matches[m]) > 0
                /\ IsSpaceStr(matches[m]) \/ \A k \in 1..Len(matches[m]) : ~IsSpaceChar(matches[m][k])
                /\ (p + 1 <= Len(source) /\ <<source[p], source[p + 1]>> \in TwoCharOps) =>
                    matches[m] = <<source[p], source[p + 1]>>
                /\ (m < Len(matches) /\ Len(matches[m]) = 1 /\ Len(matches[m + 1]) = 1) =>
                    matches[m] \o matches[m + 1] \notin TwoCharOps
                /\ (FullMatchIdent(matches[m]) /\ q <= Len(source)) => ~IsIdentChar(source[q])
                /\ (is_int_const(matches[m]) /\ q <= Len(source)) => ~IsDigit(source[q])
                /\ IsIdentStart(source[p]) => FullMatchIdent(matches[m])
                /\ IsDigit(source[p]) => is_int_const(matches[m])
                /\ (~IsSpaceStr(matches[m]) /\ matches[m] \notin TwoCharOps
                        /\ ~FullMatchIdent(matches[m]) /\ ~is_int_const(matches[m])
                        /\ ~is_char_const(matches[m]) /\ ~is_string_const(matches[m])) =>
                    Len(matches[m]) = 1
        /\ Len(tokens) = Cardinality(NonSpaceMatches(matches))
        /\ \A m \in NonSpaceMatches(matches) : tokens[TokenOfMatch(matches, m)] = matches[m]
        /\ \A k \in 1..Len(tokens) :
            Len(tokens[k]) > 0 /\ \A j \in 1..Len(tokens[k]) : ~IsSpaceChar(tokens[k][j])

\* The text `<== ` : the operator <= is taken first, the rest is a lone =.
C9_Witness ==
    /\ pc = "loop"
    /\ source = <<"<", "=", "=", " ">>
    /\ matches = << <<"<", "=">>, <<"=">>, <<" ">> >>
    /\ tokens = << <<"<", "=">>, <<"=">> >>

\* ---------------------------------------------------------------------------
\* C10
\* ---------------------------------------------------------------------------
\* The rank of token k in the final in-order list.
FinalRank(k) == index(inorder_list(st), tokens[k])

\* The keys first inserted by the tokens after position k.
LaterKeys(k) ==
    {tokens[j] : j \in {n \in (k + 1)..Len(tokens) :
        IsSymbolLexeme(tokens[n]) /\ \A h \in 1..k : tokens[h] # tokens[n]}}

C10_Final ==
    pc = "done" =>
        \A k \in 1..Len(PIF) :
            IsSymbolKind(PIF[k][1]) =>
                /\ PIF[k][2] <= FinalRank(k)
                /\ FinalRank(k) - PIF[k][2]
                    = Cardinality({x \in LaterKeys(k) : StrLess(x, tokens[k])})

C10_Step ==
    (Len(PIF') = Len(PIF) + 1 /\ IsSymbolKind(PIF'[Len(PIF')][1])) =>
        PIF'[Len(PIF')][2] = index(inorder_list(st'), tokens[i])

\* C10: the index appended for an identifier or a constant is its rank in the
\* symbol table right after that token is processed; it is never greater
\* than the final rank, and the final rank exceeds it by the number of keys
\* first inserted by later tokens that sort before the lexeme.
C10_RankAtInsertion == [][C10_Step]_vars /\ [](C10_Final)

\* A key whose rank moves by two after it is emitted.
C10_Witness ==
    /\ pc = "done"
    /\ \E k \in 1..Len(PIF) :
        IsSymbolKind(PIF[k][1]) /\ FinalRank(k) - PIF[k][2] = 2

====
